---- MODULE Spec2Model ----
(***************************************************************************)
(* The counter store of caas (src/db.go): IncrementAndGet, its two         *)
(* sub-operations increment and get, the retry policy both run under, the  *)
(* per-call query observer, and the start-up NewCassandra with its schema  *)
(* bootstrap (createKeyspace, createTables).                               *)
(*                                                                         *)
(* db.go reaches the storage cluster only through the gocql driver.  What  *)
(* the driver and the cluster do between a call of query.Exec / MapScan    *)
(* and its return is the environment of this model:                        *)
(*   - one physical attempt is one step; it is sent to the host that the   *)
(*     session's host selection policy (round robin over the hosts, one    *)
(*     position shared by the session) picks, and it succeeds or fails;    *)
(*   - an UPDATE attempt that succeeds has been applied; one that fails    *)
(*     (a timeout reported by the coordinator) may or may not have been    *)
(*     applied: a counter increment cannot be rolled back;                 *)
(*   - a SELECT at consistency ONE is answered by a single replica, which  *)
(*     holds some prefix of the applied increments, possibly none (then    *)
(*     the answer has zero rows);                                          *)
(*   - after every attempt the driver calls the query's observer with the  *)
(*     metrics it keeps for the host of that attempt: Metrics.Attempts     *)
(*     counts the query's attempts on that host, not all its attempts;     *)
(*   - after a failed attempt the driver asks the retry policy:            *)
(*     SimpleRetryPolicy.Attempt answers Attempts <= NumRetries; a retry   *)
(*     goes to the next host of the policy's iterator, and the last error  *)
(*     is returned when the iterator has no further host (before any       *)
(*     attempt: that no host is available).                                *)
(* Counter values stay far below the int64 range here.                     *)
(***************************************************************************)
EXTENDS Integers, Sequences, FiniteSets, TLC

\* ---------------------------------------------------------------- constants

\* gocql.SimpleRetryPolicy{NumRetries: 5} of the UPDATE and of the SELECT.
IncrementNumRetries == 5
GetNumRetries == 5
\* The larger of the two: no query is attempted more than NumRetries + 1 times.
NumRetries == IF IncrementNumRetries > GetNumRetries
              THEN IncrementNumRetries ELSE GetNumRetries

\* Number of concurrent callers of IncrementAndGet.
NumCalls == 2
\* Number of IncrementAndGet calls a behaviour may issue.
MaxCalls == 2
\* Number of distinct counter names the calls may use.
NumNames == 2
\* Number of storage hosts the session can send an attempt to.
NumHosts == 2
\* Number of failed physical attempts the environment may inject in a
\* behaviour: with concurrent calls, and with one call at a time.
MaxFaults == 2
MaxFaultsSerial == 6
\* Number of calls a behaviour issues when termination is checked, and the
\* failed attempts the environment may inject then: as many as one call can
\* meet at all (all but one increment attempt, every read attempt).
MaxCallsFair == 1
MaxFaultsFair == IncrementNumRetries + GetNumRetries + 1
\* Number of runs of NewCassandra (process starts) in a behaviour, and the
\* calls and the failures of the environment a behaviour with start-up has.
MaxBoots == 2
MaxCallsBoot == 1
MaxFaultsBoot == 1

Calls == 1..NumCalls

AllNames == <<"page_views", "logins", "signups", "clicks">>
Names == {AllNames[i] : i \in 1..NumNames}

AllHosts == <<"10.0.0.1", "10.0.0.2", "10.0.0.3", "10.0.0.4">>
Hosts == {AllHosts[i] : i \in 1..NumHosts}

UpdateStmt == "UPDATE counter SET value=value+1 WHERE name = ?"
SelectStmt == "SELECT name, value FROM counter WHERE name=? LIMIT 1"

\* c.hostname, read once by NewCassandra from os.Hostname().
Hostname == "caas-0"

NoName == ""

\* The keyspace and the table of the schema, and the value of
\* CASSANDRA_ADDRESS when it is set.
Keyspace == "caas"
CounterTable == "counter"
CassandraAddress == "cassandra"

\* ---------------------------------------------------------------- state

VARIABLES
    pc,        \* pc[c]: where caller c stands in IncrementAndGet:
               \*        "idle", "inc", "read", "done" (returned)
    arg,       \* arg[c]: counterName of c's call
    observer,  \* observer[c]: the queryLogger of c's call (0: none yet)
    stats,     \* stats[o]: queryLogger.stats of observer o
    query,     \* query[c]: the gocql query c's call is executing
    result,    \* result[c]: what c's call returned
    stored,    \* stored[n]: increments the cluster has applied to counter n
    pos,       \* the session's round-robin position among the hosts
    serial,    \* TRUE: a single caller, one call at a time
    faults,    \* failed attempts the environment may still inject
    budget,    \* calls that may still be issued
    before,    \* before[c]: stored[arg[c]] when c's call began    (history)
    applied,   \* applied[c]: UPDATE attempts of c's call applied  (history)
    attempts,  \* attempts[c]: physical attempts of c's call       (history)
    nohost,    \* nohost[c]: the call ended for want of a host     (history)
    tally,     \* tally[n]: the calls on n so far                  (history)
    bpc,       \* where the process stands in NewCassandra: "off" (not
               \*   started), "hostname", "getenv", "lookup", "keyspace",
               \*   "session", "tables", "ready" (returned the DB), "failed"
    ips,       \* the addresses net.LookupHost returned
    db,        \* the DB NewCassandra returned: "nil" or "cassandraDB"
    berr,      \* the error NewCassandra returned ("nil": none)
    schema,    \* the cluster's keyspaces and tables, in order of creation
    steps,     \* the bootstrap steps this run has executed       (history)
    boots      \* runs of NewCassandra so far

callVars == <<pc, arg, observer, stats, query, result, stored, pos, serial,
              faults, budget, before, applied, attempts, nohost, tally>>

bootVars == <<bpc, ips, db, berr, schema, steps, boots>>

vars == <<pc, arg, observer, stats, query, result, stored, pos, serial,
          faults, budget, before, applied, attempts, nohost, tally,
          bpc, ips, db, berr, schema, steps, boots>>

\* ---------------------------------------------------------------- data

\* Counter{}: the zero value returned beside every error.
EmptyCounter == [Name |-> NoName, Value |-> 0, Host |-> "", DBStats |-> <<>>]

NoResult == [err |-> "pending", cause |-> "", name |-> NoName, counter |-> EmptyCounter]

\* A fresh gocql query with its retry policy: no attempt made, no host
\* metrics yet.
NewQuery(stmt, numRetries) ==
    [Statement |-> stmt, NumRetries |-> numRetries, attempts |-> 0,
     metrics |-> [h \in Hosts |-> 0], err |-> "nil"]

\* The query after one more attempt on host h that ended with err: the driver
\* counts the attempt in the query's total and in the metrics it keeps for
\* host h, and keeps the attempt's error.
CountAttempt(q, h, err) ==
    [q EXCEPT !.attempts = @ + 1, !.metrics[h] = @ + 1, !.err = err]

\* The gocql.ObservedQuery handed to the observer for an attempt on host h:
\* Metrics are those of the attempt's host.
Observed(q, h, rows) ==
    [Statement |-> q.Statement, Metrics |-> [Attempts |-> q.metrics[h]],
     Host |-> h, Rows |-> rows]

\* Mutant of ObserveQuery: the new QueryStat is put in front of the log.
ObserveQueryPrepend(log, oq) ==
    <<[Statement |-> oq.Statement, Attempts |-> oq.Metrics.Attempts,
       Host |-> oq.Host, Rows |-> oq.Rows]>> \o log

\* Mutant of ObserveQuery: the log is replaced by the new QueryStat.
ObserveQueryOverwrite(log, oq) ==
    <<[Statement |-> oq.Statement, Attempts |-> oq.Metrics.Attempts,
       Host |-> oq.Host, Rows |-> oq.Rows]>>

\* queryLogger.ObserveQuery: one QueryStat appended per observed attempt.
\* (Time, the formatted duration of the attempt, is left out: no decision
\* reads it.)
ObserveQuery(log, oq) ==
    Append(log, [Statement |-> oq.Statement, Attempts |-> oq.Metrics.Attempts,
                 Host |-> oq.Host, Rows |-> oq.Rows])

\* Mutant of NewObserver: one observer shared by all calls.
NewObserverShared(c) == 1

\* observer := &queryLogger{}: every call allocates its own observer.
NewObserver(c) == c

Observers == {NewObserver(c) : c \in Calls}

\* Mutant of RetryPolicyAttempt: one retry too many.
RetryPolicyAttemptOffByOne(q) == q.attempts <= q.NumRetries + 1

\* Mutant of RetryPolicyAttempt: a failed attempt is always retried.
RetryPolicyAttemptAlways(q) == TRUE

\* SimpleRetryPolicy.Attempt, asked after a failed attempt (already counted).
RetryPolicyAttempt(q) == q.attempts <= q.NumRetries

\* ---------------------------------------------------------------- code

\* The errors an attempt can end with; "nil" is success.  The retry policy
\* does not tell them apart.  Only a timeout can leave an UPDATE applied.
ErrKinds == {"timeout", "unavailable"}

\* Mutant of ExecNext: no retry policy is set, every result is returned.
ExecNextNoRetry(q, err) == "return"

\* The driver's step after an attempt of query q (the attempt counted) ended
\* with err: a success is returned, a failure is retried while the retry
\* policy allows it, and otherwise returned.
ExecNext(q, err) ==
    IF err = "nil" THEN "return"
    ELSE IF RetryPolicyAttempt(q) THEN "retry"
    ELSE "return"

\* What the driver returns when the host iterator has no host for the next
\* attempt of q: the error of the last attempt, or, before any attempt, that
\* no host is available.
NoHostError(q) == IF q.attempts = 0 THEN "no hosts available" ELSE q.err

\* Mutant of AfterIncrement: the error of c.increment is not checked.
AfterIncrementUnchecked(name, err) == [pc |-> "read", result |-> NoResult]

\* Mutant of AfterIncrement: the check of the error is inverted.
AfterIncrementInverted(name, err) ==
    IF err = "nil"
    THEN [pc |-> "done",
          result |-> [err |-> "incrementing", cause |-> err, name |-> name,
                      counter |-> EmptyCounter]]
    ELSE [pc |-> "read", result |-> NoResult]

\* IncrementAndGet once c.increment has returned err: the wrapped error and
\* Counter{}, or on to the read-back.
AfterIncrement(name, err) ==
    IF err # "nil"
    THEN [pc |-> "done",
          result |-> [err |-> "incrementing", cause |-> err, name |-> name,
                      counter |-> EmptyCounter]]
    ELSE [pc |-> "read", result |-> NoResult]

\* Mutant of get: a result without a row is read as the zero value.
getZeroOnNoRow(err, rows, value) ==
    IF err # "nil" THEN [count |-> 0, err |-> err]
    ELSE [count |-> value, err |-> "nil"]

\* cassandraDB.get once the query has ended with err, rows rows and, when
\* there is a row, value in its value column.  Query.MapScan returns the
\* query's error, or "not found" when the result has no row.
get(err, rows, value) ==
    IF err # "nil" THEN [count |-> 0, err |-> err]
    ELSE IF rows = 0 THEN [count |-> 0, err |-> "not found"]
    ELSE [count |-> value, err |-> "nil"]

\* Mutant of AfterGet: the observer's stats are returned beside an error too.
AfterGetStatsOnError(name, log, g) ==
    [err |-> IF g.err # "nil" THEN "getting" ELSE "nil",
     cause |-> g.err, name |-> name,
     counter |-> [Name |-> name, Value |-> g.count, Host |-> Hostname,
                  DBStats |-> log]]

\* IncrementAndGet once c.get has returned g: the wrapped error and
\* Counter{}, or the Counter with the observer's stats.
AfterGet(name, log, g) ==
    IF g.err # "nil"
    THEN [err |-> "getting", cause |-> g.err, name |-> name,
          counter |-> EmptyCounter]
    ELSE [err |-> "nil", cause |-> "", name |-> name,
          counter |-> [Name |-> name, Value |-> g.count, Host |-> Hostname,
                       DBStats |-> log]]

\* ---------------------------------------------------------------- start-up

Has(list, name) == \E i \in 1..Len(list) : list[i] = name

NoSchema == [keyspaces |-> <<>>, tables |-> <<>>]

\* Mutant of CreateIfNotExists: the statement without IF NOT EXISTS.
CreateAlways(list, name) ==
    IF Has(list, name) THEN [list |-> list, err |-> "already exists"]
    ELSE [list |-> Append(list, name), err |-> "nil"]

\* The cluster executing CREATE KEYSPACE / TABLE IF NOT EXISTS name on its
\* list of keyspaces / tables.
CreateIfNotExists(list, name) ==
    IF Has(list, name) THEN [list |-> list, err |-> "nil"]
    ELSE [list |-> Append(list, name), err |-> "nil"]

\* query.Exec() of a CREATE statement: execErr is the error of the execution
\* ("nil": none); a failed execution may have been applied (app).
ExecCreate(list, name, execErr, app) ==
    LET r == CreateIfNotExists(list, name)
    IN  IF execErr = "nil" THEN r
        ELSE [list |-> IF app THEN r.list ELSE list, err |-> execErr]

\* cluster.CreateSession() for the hosts addrs and the keyspace ("": none):
\* the driver refuses an empty host list, connErr is the error of connecting,
\* and a session cannot use a keyspace that does not exist.
CreateSession(addrs, keyspace, sch, connErr) ==
    IF addrs = {} THEN "no hosts provided"
    ELSE IF connErr # "nil" THEN connErr
    ELSE IF keyspace # "" /\ ~Has(sch.keyspaces, keyspace)
         THEN "keyspace does not exist"
    ELSE "nil"

\* createKeyspace(ips): a session without keyspace, then the CREATE KEYSPACE.
createKeyspace(addrs, sch, connErr, execErr, app) ==
    LET e == CreateSession(addrs, "", sch, connErr)
    IN  IF e # "nil" THEN [schema |-> sch, err |-> e]
        ELSE LET r == ExecCreate(sch.keyspaces, Keyspace, execErr, app)
             IN  [schema |-> [sch EXCEPT !.keyspaces = r.list], err |-> r.err]

\* createTables(session): the CREATE TABLE.
createTables(sch, execErr, app) ==
    LET r == ExecCreate(sch.tables, CounterTable, execErr, app)
    IN  [schema |-> [sch EXCEPT !.tables = r.list], err |-> r.err]

\* The step of NewCassandra that follows step.
StepAfter(step) ==
    CASE step = "hostname" -> "getenv"
      [] step = "getenv" -> "lookup"
      [] step = "lookup" -> "keyspace"
      [] step = "keyspace" -> "session"
      [] step = "session" -> "tables"
      [] step = "tables" -> "ready"

\* Mutant of BootNext: the error of a step is not checked.
BootNextUnchecked(step, err) == StepAfter(step)

\* NewCassandra once step has returned err: return the error, or go on.
BootNext(step, err) == IF err # "nil" THEN "failed" ELSE StepAfter(step)

\* ---------------------------------------------------------------- actions

\* The host the round-robin policy picks at position p, and the next position.
PickHost(p) == AllHosts[p + 1]
NextPos(p) == (p + 1) % NumHosts

\* The calls on one name: how many were issued and have returned, who issued
\* them, whether two were ever in flight at once, whether all that returned
\* were successful, and the stored value when the first of them began.
NoCalls ==
    [issued |-> 0, returned |-> 0, callers |-> {}, overlap |-> FALSE,
     ok |-> TRUE, first |-> 0]

Start ==
    /\ pc = [c \in Calls |-> "idle"]
    /\ arg = [c \in Calls |-> NoName]
    /\ observer = [c \in Calls |-> 0]
    /\ stats = [o \in Observers |-> <<>>]
    /\ query = [c \in Calls |-> NewQuery("", 0)]
    /\ result = [c \in Calls |-> NoResult]
    /\ stored = [n \in Names |-> 0]
    /\ pos \in 0..(NumHosts - 1)
    /\ before = [c \in Calls |-> 0]
    /\ applied = [c \in Calls |-> 0]
    /\ attempts = [c \in Calls |-> <<>>]
    /\ nohost = [c \in Calls |-> FALSE]
    /\ tally = [n \in Names |-> NoCalls]

\* What a step of NewCassandra leaves in the history: its error and the
\* addresses it was given.
Step(step, err, addrs) == [step |-> step, err |-> err, addrs |-> addrs]

\* NewCassandra has returned the DB; the schema is there.
Booted ==
    /\ bpc = "ready"
    /\ ips = Hosts
    /\ db = "cassandraDB"
    /\ berr = "nil"
    /\ schema = [keyspaces |-> <<Keyspace>>, tables |-> <<CounterTable>>]
    /\ steps = <<Step("hostname", "nil", {}), Step("getenv", "nil", {}),
                 Step("lookup", "nil", Hosts), Step("keyspace", "nil", Hosts),
                 Step("session", "nil", Hosts), Step("tables", "nil", Hosts)>>
    /\ boots = 1

Init ==
    Start /\ Booted /\ serial = FALSE /\ faults = MaxFaults
          /\ budget = MaxCalls

InitSerial ==
    Start /\ Booted /\ serial = TRUE /\ faults = MaxFaultsSerial
          /\ budget = MaxCalls

InitFair ==
    Start /\ Booted /\ serial = TRUE /\ faults = MaxFaultsFair
          /\ budget = MaxCallsFair

\* The process has not started; the cluster may hold the schema, or the
\* keyspace alone, from an earlier start.
InitBoot ==
    /\ Start /\ serial = TRUE /\ faults = MaxFaultsBoot
    /\ budget = MaxCallsBoot
    /\ bpc = "off" /\ ips = {} /\ db = "nil" /\ berr = "nil"
    /\ schema \in {NoSchema,
                   [keyspaces |-> <<Keyspace>>, tables |-> <<>>],
                   [keyspaces |-> <<Keyspace>>, tables |-> <<CounterTable>>]}
    /\ steps = <<>>
    /\ boots = 0

InFlight(c) == pc[c] \in {"inc", "read"}

\* tally once a call on name has returned res.
Returns(name, res) ==
    [tally EXCEPT ![name] =
        [@ EXCEPT !.returned = @ + 1,
                  !.ok = @ /\ res.err = "nil"]]

\* Caller c enters IncrementAndGet(name): the observer is allocated and
\* c.increment builds its query.
Call(c, name) ==
    /\ db = "cassandraDB"
    /\ pc[c] \in {"idle", "done"}
    /\ budget > 0
    /\ budget' = budget - 1
    /\ serial => c = 1
    /\ pc' = [pc EXCEPT ![c] = "inc"]
    /\ arg' = [arg EXCEPT ![c] = name]
    /\ observer' = [observer EXCEPT ![c] = NewObserver(c)]
    /\ stats' = [stats EXCEPT ![NewObserver(c)] = <<>>]
    /\ query' = [query EXCEPT ![c] = NewQuery(UpdateStmt, IncrementNumRetries)]
    /\ result' = [result EXCEPT ![c] = NoResult]
    /\ before' = [before EXCEPT ![c] = stored[name]]
    /\ applied' = [applied EXCEPT ![c] = 0]
    /\ attempts' = [attempts EXCEPT ![c] = <<>>]
    /\ nohost' = [nohost EXCEPT ![c] = FALSE]
    /\ tally' = [tally EXCEPT ![name] =
           [@ EXCEPT !.issued = @ + 1,
                     !.first = IF tally[name].issued = 0
                               THEN stored[name] ELSE @,
                     !.callers = @ \cup {c},
                     !.overlap = @ \/ \E d \in Calls \ {c} :
                                          InFlight(d) /\ arg[d] = name]]
    /\ UNCHANGED <<stored, pos, serial, faults>>
    /\ UNCHANGED bootVars

\* One physical attempt of the UPDATE of c's call, on the host the policy
\* picks, ending with err; app says whether the cluster applied the increment.
IncrementAttempt(c, err, app) ==
    /\ pc[c] = "inc"
    /\ err = "nil" => app
    /\ err = "unavailable" => ~app
    /\ err # "nil" => faults > 0
    /\ LET h == PickHost(pos)
           q == CountAttempt(query[c], h, err)
           after == AfterIncrement(arg[c], err)
       IN  /\ stats' = [stats EXCEPT ![observer[c]] =
                           ObserveQuery(@, Observed(q, h, 0))]
           /\ IF ExecNext(q, err) = "retry"
              THEN /\ query' = [query EXCEPT ![c] = q]
                   /\ UNCHANGED <<pc, result, tally>>
              ELSE /\ pc' = [pc EXCEPT ![c] = after.pc]
                   /\ result' = [result EXCEPT ![c] = after.result]
                   /\ query' = [query EXCEPT ![c] =
                                   IF after.pc = "read"
                                   THEN NewQuery(SelectStmt, GetNumRetries) ELSE q]
                   /\ tally' = IF after.pc = "done"
                               THEN Returns(arg[c], after.result) ELSE tally
    /\ stored' = [stored EXCEPT ![arg[c]] = IF app THEN @ + 1 ELSE @]
    /\ applied' = [applied EXCEPT ![c] = IF app THEN @ + 1 ELSE @]
    /\ attempts' = [attempts EXCEPT ![c] =
                       Append(@, [op |-> "increment", err |-> err # "nil",
                                  host |-> PickHost(pos)])]
    /\ faults' = IF err = "nil" THEN faults ELSE faults - 1
    /\ pos' = NextPos(pos)
    /\ UNCHANGED <<arg, observer, serial, budget, before, nohost>>
    /\ UNCHANGED bootVars

\* The host iterator yields no host for the next attempt of the UPDATE: the
\* driver returns without one.
IncrementNoHost(c) ==
    /\ pc[c] = "inc"
    /\ LET after == AfterIncrement(arg[c], NoHostError(query[c]))
       IN  /\ pc' = [pc EXCEPT ![c] = after.pc]
           /\ result' = [result EXCEPT ![c] = after.result]
           /\ query' = [query EXCEPT ![c] =
                           IF after.pc = "read"
                           THEN NewQuery(SelectStmt, GetNumRetries) ELSE @]
           /\ tally' = IF after.pc = "done"
                       THEN Returns(arg[c], after.result) ELSE tally
    /\ nohost' = [nohost EXCEPT ![c] = TRUE]
    /\ UNCHANGED <<arg, observer, stats, stored, pos, serial, faults,
                   budget, before, applied, attempts>>
    /\ UNCHANGED bootVars

\* One physical attempt of the SELECT of c's call, on the host the policy
\* picks, ending with err; the replica that answers has seen value of the
\* applied increments.
GetAttempt(c, err, value) ==
    /\ pc[c] = "read"
    /\ value \in 0..stored[arg[c]]
    /\ err # "nil" => faults > 0 /\ value = 0
    /\ LET h == PickHost(pos)
           q == CountAttempt(query[c], h, err)
           rows == IF err = "nil" /\ value > 0 THEN 1 ELSE 0
           log == ObserveQuery(stats[observer[c]], Observed(q, h, rows))
           res == AfterGet(arg[c], log, get(err, rows, value))
       IN  /\ stats' = [stats EXCEPT ![observer[c]] = log]
           /\ query' = [query EXCEPT ![c] = q]
           /\ IF ExecNext(q, err) = "retry"
              THEN UNCHANGED <<pc, result, tally>>
              ELSE /\ pc' = [pc EXCEPT ![c] = "done"]
                   /\ result' = [result EXCEPT ![c] = res]
                   /\ tally' = Returns(arg[c], res)
    /\ attempts' = [attempts EXCEPT ![c] =
                       Append(@, [op |-> "get", err |-> err # "nil",
                                  host |-> PickHost(pos)])]
    /\ faults' = IF err = "nil" THEN faults ELSE faults - 1
    /\ pos' = NextPos(pos)
    /\ UNCHANGED <<arg, observer, stored, serial, budget, before, applied,
                   nohost>>
    /\ UNCHANGED bootVars

\* The host iterator yields no host for the next attempt of the SELECT.
GetNoHost(c) ==
    /\ pc[c] = "read"
    /\ LET res == AfterGet(arg[c], stats[observer[c]],
                           get(NoHostError(query[c]), 0, 0))
       IN  /\ pc' = [pc EXCEPT ![c] = "done"]
           /\ result' = [result EXCEPT ![c] = res]
           /\ tally' = Returns(arg[c], res)
    /\ nohost' = [nohost EXCEPT ![c] = TRUE]
    /\ UNCHANGED <<arg, observer, stats, query, stored, pos, serial, faults,
                   budget, before, applied, attempts>>
    /\ UNCHANGED bootVars

\* The names a new call may use.  Names are interchangeable, so a call uses a
\* name that was used before or the first name not used yet.
UsedNames == {n \in Names : tally[n].issued > 0}
CallNames ==
    LET k == Cardinality(UsedNames)
    IN  {AllNames[i] : i \in 1..(IF k < NumNames THEN k + 1 ELSE NumNames)}

Next ==
    \E c \in Calls :
        \/ \E name \in CallNames : Call(c, name)
        \/ \E err \in ErrKinds \cup {"nil"}, app \in BOOLEAN :
               IncrementAttempt(c, err, app)
        \/ IncrementNoHost(c)
        \/ \E err \in ErrKinds \cup {"nil"},
              value \in 0..(MaxCalls * (NumRetries + 1)) :
               GetAttempt(c, err, value)
        \/ GetNoHost(c)

Spec == Init /\ [][Next]_vars

SpecSerial == InitSerial /\ [][Next]_vars

\* A step of c's call other than its start: query.Exec / MapScan is a blocking
\* call, and every physical attempt the driver makes for it returns.
Proceeds(c) ==
    \/ \E err \in ErrKinds \cup {"nil"}, app \in BOOLEAN :
           IncrementAttempt(c, err, app)
    \/ IncrementNoHost(c)
    \/ \E err \in ErrKinds \cup {"nil"},
          value \in 0..(MaxCalls * (NumRetries + 1)) :
           GetAttempt(c, err, value)
    \/ GetNoHost(c)

SpecFair ==
    InitFair /\ [][Next]_vars /\ \A c \in Calls : WF_vars(Proceeds(c))

\* ------------------------------------------------------- start-up actions

\* NewCassandra handles the result err of step, which was given addrs.
Return(step, err, addrs) ==
    /\ bpc' = BootNext(step, err)
    /\ berr' = err
    /\ db' = IF BootNext(step, err) = "ready" THEN "cassandraDB" ELSE "nil"
    /\ steps' = Append(steps, Step(step, err, addrs))

\* err is no error, or one the environment may still inject.
MayFail(err) == err # "nil" => faults > 0
Injected(err) == IF err = "nil" THEN 0 ELSE 1

\* The process starts (or starts again, with no call in flight): main calls
\* NewCassandra.
Boot ==
    /\ bpc \in {"off", "ready", "failed"}
    /\ boots < MaxBoots
    /\ \A c \in Calls : ~InFlight(c)
    /\ bpc' = "hostname"
    /\ ips' = {}
    /\ db' = "nil"
    /\ berr' = "nil"
    /\ steps' = <<>>
    /\ boots' = boots + 1
    /\ UNCHANGED schema
    /\ UNCHANGED callVars

\* os.Hostname().
GetHostname(err) ==
    /\ bpc = "hostname"
    /\ MayFail(err)
    /\ Return("hostname", err, {})
    /\ faults' = faults - Injected(err)
    /\ UNCHANGED <<ips, schema, boots>>
    /\ UNCHANGED <<pc, arg, observer, stats, query, result, stored, pos,
                   serial, budget, before, applied, attempts, nohost, tally>>

\* os.Getenv("CASSANDRA_ADDRESS") returns addr.
Getenv(addr) ==
    /\ bpc = "getenv"
    /\ Return("getenv",
              IF addr = "" THEN "CASSANDRA_ADDRESS must be set" ELSE "nil", {})
    /\ UNCHANGED <<ips, schema, boots>>
    /\ UNCHANGED callVars

\* net.LookupHost(addr) returns the addresses res and err.
LookupHost(res, err) ==
    /\ bpc = "lookup"
    /\ MayFail(err)
    /\ err # "nil" => res = {}
    /\ ips' = res
    /\ Return("lookup", IF err # "nil" THEN "cannot resolve" ELSE "nil", res)
    /\ faults' = faults - Injected(err)
    /\ UNCHANGED <<schema, boots>>
    /\ UNCHANGED <<pc, arg, observer, stats, query, result, stored, pos,
                   serial, budget, before, applied, attempts, nohost, tally>>

\* createKeyspace(ips).
CreateKeyspace(connErr, execErr, app) ==
    /\ bpc = "keyspace"
    /\ MayFail(connErr) /\ MayFail(execErr)
    /\ (ips = {} \/ connErr # "nil") => execErr = "nil"
    /\ ips = {} => connErr = "nil"
    /\ execErr = "nil" => app
    /\ Injected(connErr) + Injected(execErr) <= faults
    /\ LET r == createKeyspace(ips, schema, connErr, execErr, app)
       IN  /\ schema' = r.schema
           /\ Return("keyspace", r.err, ips)
    /\ faults' = faults - (Injected(connErr) + Injected(execErr))
    /\ UNCHANGED <<ips, boots>>
    /\ UNCHANGED <<pc, arg, observer, stats, query, result, stored, pos,
                   serial, budget, before, applied, attempts, nohost, tally>>

\* cluster.CreateSession() with the keyspace caas.
ConnectSession(connErr) ==
    /\ bpc = "session"
    /\ MayFail(connErr)
    /\ ips = {} => connErr = "nil"
    /\ Return("session", CreateSession(ips, Keyspace, schema, connErr), ips)
    /\ faults' = faults - Injected(connErr)
    /\ UNCHANGED <<ips, schema, boots>>
    /\ UNCHANGED <<pc, arg, observer, stats, query, result, stored, pos,
                   serial, budget, before, applied, attempts, nohost, tally>>

\* createTables(session).
CreateTables(execErr, app) ==
    /\ bpc = "tables"
    /\ MayFail(execErr)
    /\ execErr = "nil" => app
    /\ LET r == createTables(schema, execErr, app)
       IN  /\ schema' = r.schema
           /\ Return("tables", r.err, ips)
    /\ faults' = faults - Injected(execErr)
    /\ UNCHANGED <<ips, boots>>
    /\ UNCHANGED <<pc, arg, observer, stats, query, result, stored, pos,
                   serial, budget, before, applied, attempts, nohost, tally>>

NextBoot ==
    \/ Boot
    \/ \E err \in {"nil", "hostname"} : GetHostname(err)
    \/ \E addr \in {"", CassandraAddress} : Getenv(addr)
    \/ \E res \in SUBSET Hosts, err \in {"nil", "no such host"} :
           LookupHost(res, err)
    \/ \E connErr \in {"nil", "unavailable"}, execErr \in {"nil", "timeout"},
          app \in BOOLEAN : CreateKeyspace(connErr, execErr, app)
    \/ \E connErr \in {"nil", "unavailable"} : ConnectSession(connErr)
    \/ \E execErr \in {"nil", "timeout"}, app \in BOOLEAN :
           CreateTables(execErr, app)
    \/ Next

SpecBoot == InitBoot /\ [][NextBoot]_vars

\* ---------------------------------------------------------------- claims

IsIncrement(a) == a.op = "increment"
IsGet(a) == a.op = "get"
IsUpdateStat(e) == e.Statement = UpdateStmt
IsSelectStat(e) == e.Statement = SelectStmt

\* The physical attempts call c made for each sub-operation, in order.
IncTries(c) == SelectSeq(attempts[c], IsIncrement)
GetTries(c) == SelectSeq(attempts[c], IsGet)

\* What call c's observer has recorded, and its entries per statement.
Log(c) == IF observer[c] = 0 THEN <<>> ELSE stats[observer[c]]
UpdateStats(c) == SelectSeq(Log(c), IsUpdateStat)
SelectStats(c) == SelectSeq(Log(c), IsSelectStat)

AllFailed(tries) == \A i \in 1..Len(tries) : tries[i].err
LastOk(tries) == tries # <<>> /\ ~tries[Len(tries)].err
\* K failures, then a success.
FailuresThenSuccess(tries, K) ==
    /\ Len(tries) = K + 1
    /\ \A i \in 1..K : tries[i].err
    /\ ~tries[K + 1].err

Returned(c) == pc[c] = "done"
Succeeded(c) == Returned(c) /\ result[c].err = "nil"
IncrementError(c) == Returned(c) /\ result[c].err = "incrementing"
ReadError(c) == Returned(c) /\ result[c].err = "getting"

\* C1: N calls on one name, issued one after another with no other caller on
\* that name and all successful: the Value the last call returns is the
\* counter's value before the first call plus N.
C1_SequentialCallsAddN ==
    \A c \in Calls :
        LET t == tally[arg[c]]
        IN  ( /\ Succeeded(c)
              /\ t.callers = {c}
              /\ t.returned = t.issued
              /\ ~t.overlap
              /\ t.ok )
            => result[c].counter.Value = t.first + t.issued

\* C2: T callers, each calling IncrementAndGet once on the same name, under
\* any interleaving of their attempts and retries: once all the calls have
\* completed (here: successfully), the stored value is the value before plus T.
C2_ConcurrentCallsAddT ==
    \A n \in Names :
        ( /\ tally[n].issued = NumCalls
          /\ Cardinality(tally[n].callers) = NumCalls
          /\ tally[n].returned = tally[n].issued
          /\ tally[n].ok )
        => stored[n] = tally[n].first + NumCalls

\* C3: when the increment has failed with its retries exhausted, the call has
\* returned an increment error naming the counter, and a call that returned
\* an increment error has issued no SELECT: none is in its attempt log and
\* none was attempted.
C3_NoReadAfterIncrementError ==
    \A c \in Calls :
        /\ (Len(IncTries(c)) = 6 /\ AllFailed(IncTries(c)))
               => IncrementError(c)
        /\ IncrementError(c) =>
               /\ result[c].name = arg[c]
               /\ SelectStats(c) = <<>>
               /\ GetTries(c) = <<>>

C3_Witness ==
    \E c \in Calls :
        /\ IncrementError(c)
        /\ Len(IncTries(c)) = 6
        /\ Len(UpdateStats(c)) = 6

\* C4: a call that returned an increment error has not changed the stored
\* counter: none of its increment attempts was applied.
C4_IncrementErrorNotApplied ==
    \A c \in Calls : IncrementError(c) => applied[c] = 0

\* C5: a call that returned a read error has had its increment applied: the
\* stored value counts it.
C5_ReadErrorAfterIncrement ==
    \A c \in Calls :
        ReadError(c) =>
            /\ applied[c] >= 1
            /\ stored[arg[c]] >= before[c] + 1

C5_Witness ==
    \E c \in Calls :
        /\ ReadError(c)
        /\ applied[c] >= 1
        /\ stored[arg[c]] = before[c] + 1

\* C6: each sub-operation makes at most 6 physical attempts (5 after the first),
\* the same bound for both; when the 6th has failed the call has returned with
\* that attempt's error, so no further attempt is made.
C6_AtMostSixAttempts ==
    \A c \in Calls :
        /\ Len(IncTries(c)) <= 6
        /\ Len(GetTries(c)) <= 6
        /\ (Len(IncTries(c)) = 6 /\ AllFailed(IncTries(c)))
               => IncrementError(c) /\ result[c].cause = query[c].err
        /\ (Len(GetTries(c)) = 6 /\ AllFailed(GetTries(c)))
               => ReadError(c) /\ result[c].cause = query[c].err

C6_Witness ==
    \E c \in Calls :
        /\ ReadError(c)
        /\ Len(GetTries(c)) = 6
        /\ AllFailed(GetTries(c))
        /\ result[c].cause \in ErrKinds

\* C7 as stated: an error reaches the caller only when all 6 attempts of the
\* failing sub-operation have failed.
C7_ErrorOnlyAfterSixFailures ==
    \A c \in Calls :
        /\ IncrementError(c) =>
               Len(IncTries(c)) = 6 /\ AllFailed(IncTries(c))
        /\ ReadError(c) =>
               Len(GetTries(c)) = 6 /\ AllFailed(GetTries(c))

\* C7 amended: retries are invisible.  A sub-operation whose attempt succeeds
\* after K <= 5 failures gives the caller no error, except a read whose
\* successful attempt found no row ("not found").  Any other error reaches the
\* caller only after the failing sub-operation's 6th failed attempt, or when
\* the driver had no host left for a first or a further attempt.
C7_RetriesInvisible ==
    \A c \in Calls :
        /\ LastOk(IncTries(c)) => ~IncrementError(c)
        /\ (LastOk(GetTries(c)) /\ SelectStats(c)[Len(SelectStats(c))].Rows > 0)
               => Succeeded(c)
        /\ IncrementError(c) =>
               /\ AllFailed(IncTries(c))
               /\ nohost[c] \/ Len(IncTries(c)) = 6
        /\ ReadError(c) =>
               \/ result[c].cause = "not found" /\ LastOk(GetTries(c))
               \/ nohost[c] /\ AllFailed(GetTries(c))
               \/ Len(GetTries(c)) = 6 /\ AllFailed(GetTries(c))

C7_Witness ==
    \E c \in Calls :
        /\ Succeeded(c)
        /\ FailuresThenSuccess(IncTries(c), 2)
        /\ FailuresThenSuccess(GetTries(c), 3)

\* C8: a successful call in which neither sub-operation was retried returns
\* DBStats of exactly two entries: the UPDATE's, then the SELECT's.
C8_TwoStatsInOrder ==
    \A c \in Calls :
        (Succeeded(c) /\ Len(IncTries(c)) = 1 /\ Len(GetTries(c)) = 1) =>
            /\ Len(result[c].counter.DBStats) = 2
            /\ result[c].counter.DBStats[1].Statement = UpdateStmt
            /\ result[c].counter.DBStats[2].Statement = SelectStmt

C8_Witness ==
    \E c \in Calls :
        /\ Succeeded(c)
        /\ Len(attempts[c]) = 2
        /\ Len(result[c].counter.DBStats) = 2

\* C9: for 0 <= K <= 5, a sub-operation that fails K times and then succeeds
\* contributes K + 1 entries to DBStats, and the Attempts of its last entry is
\* K + 1.
C9_AttemptsIsKPlusOne ==
    \A c \in Calls : \A K \in 0..5 :
        /\ FailuresThenSuccess(IncTries(c), K) =>
               /\ Len(UpdateStats(c)) = K + 1
               /\ UpdateStats(c)[K + 1].Attempts = K + 1
        /\ FailuresThenSuccess(GetTries(c), K) =>
               /\ Len(SelectStats(c)) = K + 1
               /\ SelectStats(c)[K + 1].Attempts = K + 1

\* C10: a read-back that completes without a storage error and with zero rows
\* makes the call return a read error ("not found"); no successful Counter
\* has Value 0.
C10_ZeroRowsIsReadError ==
    \A c \in Calls :
        /\ ( /\ Returned(c)
             /\ LastOk(GetTries(c))
             /\ SelectStats(c)[Len(SelectStats(c))].Rows = 0 )
               => ReadError(c) /\ result[c].cause = "not found"
        /\ Succeeded(c) => result[c].counter.Value >= 1

C10_Witness ==
    \E c \in Calls :
        /\ ReadError(c)
        /\ LastOk(GetTries(c))
        /\ applied[c] >= 1
        /\ SelectStats(c)[Len(SelectStats(c))].Rows = 0

\* In log, every UPDATE entry stands before every SELECT entry.
UpdatesFirst(log) ==
    \A i, j \in 1..Len(log) :
        (IsSelectStat(log[i]) /\ IsUpdateStat(log[j])) => j < i

\* C11: within one call, a read attempt is made only once the increment has
\* completed successfully; all the call's increment attempts precede all its
\* read attempts; in the observer's log and in the DBStats returned, every
\* UPDATE entry precedes every SELECT entry.
C11_IncrementBeforeRead ==
    \A c \in Calls :
        /\ GetTries(c) # <<>> => LastOk(IncTries(c))
        /\ \A i, j \in 1..Len(attempts[c]) :
               (IsGet(attempts[c][i]) /\ IsIncrement(attempts[c][j])) => j < i
        /\ UpdatesFirst(Log(c))
        /\ UpdatesFirst(result[c].counter.DBStats)

C11_Witness ==
    \E c \in Calls :
        /\ Succeeded(c)
        /\ Len(IncTries(c)) >= 2
        /\ Len(GetTries(c)) >= 2
        /\ Len(result[c].counter.DBStats) >= 4

\* Entry e of an observer's log is the record of physical attempt a.
RecordOf(e, a) ==
    /\ e.Statement = (IF IsIncrement(a) THEN UpdateStmt ELSE SelectStmt)
    /\ e.Host = a.host

\* log holds one entry per attempt of tries, in the order of the attempts.
RecordsExactly(log, tries) ==
    /\ Len(log) = Len(tries)
    /\ \A i \in 1..Len(tries) : RecordOf(log[i], tries[i])

\* C12: each call owns its observer.  Under any interleaving of concurrent
\* calls, on the same name or on different names, the log of a call's observer
\* and the DBStats the call returns hold exactly the attempts of that call's
\* own increment and read, none of another call.
C12_OwnAttemptsOnly ==
    \A c \in Calls :
        /\ \A d \in Calls \ {c} :
               (observer[c] # 0 /\ observer[d] # 0) => observer[c] # observer[d]
        /\ RecordsExactly(Log(c), attempts[c])
        /\ Succeeded(c) => RecordsExactly(result[c].counter.DBStats, attempts[c])

\* Two calls on one name were in flight together and their attempts
\* interleaved: the round robin gave two consecutive attempts of one call
\* the same host.
C12_Witness ==
    \E c \in Calls : \E d \in Calls \ {c} :
        /\ Succeeded(c) /\ Succeeded(d)
        /\ arg[c] = arg[d]
        /\ tally[arg[c]].overlap
        /\ Len(result[d].counter.DBStats) = 2
        /\ Len(result[c].counter.DBStats) = 2
        /\ result[c].counter.DBStats[1].Host = result[c].counter.DBStats[2].Host

\* Caller c enters a new call in this step.
Enters(c) == pc[c] \in {"idle", "done"} /\ pc'[c] = "inc"

\* C17: the attempt log of a call is append-only.  A step in which the call
\* makes a physical attempt adds exactly one entry at the end of its log and
\* leaves the earlier entries as they were; any other step of the same call
\* leaves the log as it was; so the previous log is a prefix of the current
\* one, and the log is as long as the number of attempts the call has made.
\* (A new call starts with a new, empty log.)
C17_LogAppendOnly ==
    [][\A c \in Calls :
          /\ Enters(c) => Log(c)' = <<>>
          /\ ~Enters(c) =>
                /\ Len(attempts'[c]) = Len(attempts[c]) + 1 =>
                       /\ Len(Log(c)') = Len(Log(c)) + 1
                       /\ SubSeq(Log(c)', 1, Len(Log(c))) = Log(c)
                /\ attempts'[c] = attempts[c] => Log(c)' = Log(c)
          /\ Len(Log(c)') = Len(attempts'[c])]_vars

C17_Witness ==
    \E c \in Calls :
        /\ InFlight(c)
        /\ Len(attempts[c]) >= 3
        /\ Len(Log(c)) = Len(attempts[c])

\* C18: whenever IncrementAndGet returns an error, the Counter beside it is
\* the empty value: Name empty, Value 0, Host empty, DBStats empty.  The
\* attempts the observer recorded before the failure are not handed out.
C18_ErrorReturnsEmptyCounter ==
    \A c \in Calls :
        (Returned(c) /\ result[c].err # "nil") =>
            /\ result[c].counter.Name = ""
            /\ result[c].counter.Value = 0
            /\ result[c].counter.Host = ""
            /\ result[c].counter.DBStats = <<>>

C18_Witness ==
    \E c \in Calls :
        /\ ReadError(c)
        /\ Len(Log(c)) >= 2
        /\ result[c].counter.DBStats = <<>>

\* C19: every call terminates, whatever the pattern of failures, provided
\* each physical attempt returns: a call in flight has made at most 12
\* physical attempts, at most 6 for the increment and at most 6 for the read;
\* it goes on to return a Counter or an error (calls are made one at a time
\* here, so that is: again and again no call is in flight); and once it has
\* returned, no further attempt is made for it.
C19_CallTerminates ==
    /\ [](\A c \in Calls :
             /\ Len(attempts[c]) <= 12
             /\ Len(IncTries(c)) <= 6
             /\ Len(GetTries(c)) <= 6)
    /\ []<>(\A c \in Calls : ~InFlight(c))
    /\ [][\A c \in Calls :
             (Returned(c) /\ ~Enters(c)) =>
                 /\ attempts'[c] = attempts[c]
                 /\ Log(c)' = Log(c)
                 /\ result'[c] = result[c]]_vars

\* A call that returned after 12 physical attempts: the increment succeeded
\* at its 6th attempt, the read failed 6 times.
C19_Witness ==
    \E c \in Calls :
        /\ ReadError(c)
        /\ Len(attempts[c]) = 12
        /\ FailuresThenSuccess(IncTries(c), 5)
        /\ AllFailed(GetTries(c))

\* Callers c and d are different, their calls are on one name, were in flight
\* together, and were the first two on that name; each call's UPDATE was
\* applied once.
ConcurrentPair(c, d) ==
    /\ c # d
    /\ arg[c] \in Names
    /\ arg[c] = arg[d]
    /\ tally[arg[c]].issued = 2
    /\ tally[arg[c]].overlap
    /\ applied[c] = 1 /\ applied[d] = 1
    /\ stored[arg[c]] = tally[arg[c]].first + 2

\* C16: with two concurrent calls on one name a successful call returns a
\* Value between 1 and the number of increments applied, and nothing more is
\* guaranteed.  Both outcomes are reachable (C16_Witness): (a) both callers
\* return the same Value, which counts both increments, and (b) a caller
\* returns a Value that does not count its own increment.
C16_ValueWithinApplied ==
    \A c \in Calls :
        Succeeded(c) =>
            /\ result[c].counter.Value >= 1
            /\ result[c].counter.Value <= stored[arg[c]]

\* The point where the two outcomes part: both increments are applied, d has
\* returned the Value that counts both, and c, which began after d's increment
\* was applied, is about to read.  One read attempt of c leads to (a): c
\* returns d's Value; another leads to (b): c returns a Value no larger than
\* the value stored before c's call began.
C16_Witness ==
    \E c \in Calls : \E d \in Calls :
        /\ ConcurrentPair(c, d)
        /\ Succeeded(d)
        /\ result[d].counter.Value = stored[arg[d]]
        /\ pc[c] = "read"
        /\ before[c] >= 1
        /\ ENABLED ( /\ \E v \in 1..stored[arg[c]] : GetAttempt(c, "nil", v)
                     /\ pc'[c] = "done"
                     /\ result'[c].err = "nil"
                     /\ result'[c].counter.Value = result[d].counter.Value )
        /\ ENABLED ( /\ \E v \in 1..stored[arg[c]] : GetAttempt(c, "nil", v)
                     /\ pc'[c] = "done"
                     /\ result'[c].err = "nil"
                     /\ result'[c].counter.Value <= before[c] )

\* Outcome (a) of C16 reached: both callers returned the Value that counts
\* both increments.
C16_BothCountBoth ==
    \E c \in Calls : \E d \in Calls :
        /\ ConcurrentPair(c, d)
        /\ Succeeded(c) /\ Succeeded(d)
        /\ result[c].counter.Value = stored[arg[c]]
        /\ result[d].counter.Value = stored[arg[c]]

\* Outcome (b) of C16 reached: c returned a Value that does not count its own
\* increment.
C16_OwnIncrementMissing ==
    \E c \in Calls : \E d \in Calls :
        /\ ConcurrentPair(c, d)
        /\ Succeeded(c) /\ Succeeded(d)
        /\ result[c].counter.Value <= before[c]

\* The cluster holds the keyspace and the counter table.
HasSchema ==
    Has(schema.keyspaces, Keyspace) /\ Has(schema.tables, CounterTable)

\* This step is the run of createKeyspace or of createTables.
SchemaStep == bpc \in {"keyspace", "tables"} /\ bpc' # bpc

\* C13: the schema bootstrap is idempotent.  Run against a cluster that holds
\* the keyspace and the counter table already, createKeyspace and
\* createTables leave the cluster as it was (one keyspace, one table, every
\* counter value unchanged) and return no error, unless the environment
\* failed the step or no address was given; the cluster never holds a
\* keyspace or a table twice.
C13_BootstrapIdempotent ==
    /\ [](Len(schema.keyspaces) <= 1 /\ Len(schema.tables) <= 1)
    /\ [][(HasSchema /\ SchemaStep) =>
             /\ schema' = schema
             /\ stored' = stored
             /\ (faults' = faults /\ ips # {}) =>
                    bpc' # "failed" /\ berr' = "nil"]_vars

\* A second run of NewCassandra has returned the DB without any failure, on a
\* cluster whose counter had been incremented through the first run's DB.
C13_Witness ==
    /\ boots = 2
    /\ bpc = "ready"
    /\ faults = MaxFaultsBoot
    /\ schema = [keyspaces |-> <<Keyspace>>, tables |-> <<CounterTable>>]
    /\ \E n \in Names : stored[n] >= 1

\* C14: when a bootstrap step (createKeyspace, the session, createTables, or
\* a step before them) fails, NewCassandra returns that error and no DB, and
\* executes no further step nor the same step again; a DB exists only when
\* every step of the run has succeeded, the keyspace statement before the
\* table statement; a call of IncrementAndGet is in flight only on a DB and a
\* cluster that holds the schema.
C14_HandleOnlyAfterBootstrap ==
    /\ \A i \in 1..Len(steps) :
           steps[i].err # "nil" =>
               /\ i = Len(steps)
               /\ bpc = "failed"
               /\ berr = steps[i].err
               /\ db = "nil"
    /\ \A i, j \in 1..Len(steps) : steps[i].step = steps[j].step => i = j
    /\ db = "cassandraDB" =>
           /\ bpc = "ready" /\ berr = "nil"
           /\ \A i \in 1..Len(steps) : steps[i].err = "nil"
           /\ \E i, j \in 1..Len(steps) :
                  /\ i < j
                  /\ steps[i].step = "keyspace"
                  /\ steps[j].step = "tables"
           /\ HasSchema
    /\ \A c \in Calls : InFlight(c) => db = "cassandraDB" /\ HasSchema

\* The table statement failed after the keyspace statement and the session
\* had succeeded.
C14_Witness ==
    /\ bpc = "failed"
    /\ db = "nil"
    /\ Len(steps) = 6
    /\ steps[4] = Step("keyspace", "nil", ips)
    /\ steps[5] = Step("session", "nil", ips)
    /\ steps[6].step = "tables" /\ steps[6].err = "timeout"

\* C15: when the address resolution yields no address, NewCassandra has
\* failed with a configuration error and returned no DB, and neither
\* createKeyspace, the session nor createTables is run with an empty set of
\* addresses.
C15_NoBootstrapWithoutAddress ==
    \A i \in 1..Len(steps) :
        /\ (steps[i].step = "lookup" /\ steps[i].addrs = {}) =>
               /\ bpc = "failed"
               /\ berr \in {"CASSANDRA_ADDRESS must be set", "cannot resolve"}
               /\ db = "nil"
        /\ steps[i].step \in {"keyspace", "session", "tables"} =>
               steps[i].addrs # {}

====
